---- MODULE Spec2Model ----
(***************************************************************************)
(* State machine of the photocard binder (src/App.tsx, component           *)
(* BinderApp): the paginated collection, the long-press drag gesture, the  *)
(* asynchronous uploads and the sequential export run.                     *)
(*                                                                         *)
(* Every handler runs to completion (one action); React re-renders between *)
(* events, so a handler reads the state of the latest render, and a timer  *)
(* callback reads what its handler's render closed over (kept in the       *)
(* timer's record).                                                        *)
(***************************************************************************)
EXTENDS Integers, Sequences, FiniteSets, TLC

(* ---------- program constants ---------- *)
ITEMS_PER_PAGE == 9
LongPressDelay == 400
HitTestDelay == 50
JumpDelay == 100
SettleDelay == 800
MoveThreshold == 10

(* ---------- bounds of the model ---------- *)
\* longest Collection the main specification lets an operation produce
MaxLen == 11
\* slot positions 0..MaxSlot of the shown page receive pointer input
MaxSlot == 1
\* timeouts pending at once (long-press, hit-test, page jump, export settle)
MaxTimeouts == 2
\* FileReader operations in flight at once
MaxReads == 1
\* longest Collection the gesture specification uploads into
DragMaxLen == 2
\* longest Collection the collection specification starts from
CollMaxLen == 3
\* largest global index given to the collection operations
CollMaxIdx == 3

(* ---------- values ---------- *)
NULL == "null"
Images == {"a"}
CollImages == {"a", "b"}
NoIndex == -1
\* pixel coordinates of pointer events. From the pointer-down point (0,5),
\* (10,15) is at the threshold in both axes, (11,0) is past it in x only and
\* (10,16) in y only.
DownPoints == {<<0, 5>>}
Points == {<<10, 15>>, <<11, 0>>, <<10, 16>>}
\* numbers of files of one batch upload
BatchSizes == {1, ITEMS_PER_PAGE}

Max(a, b) == IF a >= b THEN a ELSE b
Min(a, b) == IF a <= b THEN a ELSE b
Abs(a) == IF a >= 0 THEN a ELSE -a
\* Math.ceil(n / d) for n >= 0, d > 0
Ceil(n, d) == (n + d - 1) \div d

VARIABLES
  allCards,        \* useState: the Collection, a sequence of slots
  currentPage,     \* useState: page shown in the editor
  isGenerating,    \* useState: export run in flight
  generatedImages, \* useState: published export output
  dragState,       \* useState: [isDragging, draggedIndex, draggedData, x, y]
  isPreviewMode,   \* useState
  previewPage,     \* useState
  isDraggingRef,   \* useRef
  dragStartPosRef, \* useRef: <<x, y>>
  timeouts,        \* pending setTimeout callbacks, earliest deadline first
  reads,           \* FileReader operations in flight
  gen,             \* locals and closure of the running handleGenerateAll
  inflight,        \* html2canvas requests not yet settled
  mouseDownOn,     \* where the mouse button went down, for click dispatch
  last             \* the handler that ran last, with its arguments

vars == <<allCards, currentPage, isGenerating, generatedImages, dragState,
          isPreviewMode, previewPage, isDraggingRef, dragStartPosRef,
          timeouts, reads, gen, inflight, mouseDownOn, last>>

(* ---------- the Collection ---------- *)
\* 0-based read; allCards[k] || null
At(cards, k) == IF k >= 0 /\ k < Len(cards) THEN cards[k + 1] ELSE NULL

Nulls(n) == [k \in 1..n |-> NULL]

\* (variant: Math.floor in place of Math.ceil)
totalPagesFloor(cards) == Max(1, Len(cards) \div ITEMS_PER_PAGE)

totalPages(cards) == Max(1, Ceil(Len(cards), ITEMS_PER_PAGE))

\* (variant: the slice starts one slot late)
getCardsForPageLate(cards, pageIdx) ==
  LET startIndex == pageIdx * ITEMS_PER_PAGE + 1
      pageCards == [k \in 1..Max(0, Min(Len(cards) - startIndex, ITEMS_PER_PAGE))
                      |-> cards[startIndex + k]]
  IN pageCards \o Nulls(ITEMS_PER_PAGE - Len(pageCards))

getCardsForPage(cards, pageIdx) ==
  LET startIndex == pageIdx * ITEMS_PER_PAGE
      pageCards == [k \in 1..Max(0, Min(Len(cards) - startIndex, ITEMS_PER_PAGE))
                      |-> cards[startIndex + k]]
  IN pageCards \o Nulls(ITEMS_PER_PAGE - Len(pageCards))

\* (variant: if in place of while, one trailing null is popped)
TrimOnce(cards) ==
  IF Len(cards) > 0 /\ cards[Len(cards)] = NULL
    THEN SubSeq(cards, 1, Len(cards) - 1)
    ELSE cards

\* while (i >= 0 && updated[i] === null) { updated.pop(); i--; }
RECURSIVE TrimTrailing(_)
TrimTrailing(cards) ==
  IF Len(cards) > 0 /\ cards[Len(cards)] = NULL
    THEN TrimTrailing(SubSeq(cards, 1, Len(cards) - 1))
    ELSE cards

\* while (updated.length <= index) updated.push(null)
ExtendTo(cards, index) ==
  IF Len(cards) <= index THEN cards \o Nulls(index + 1 - Len(cards)) ELSE cards

\* (variant: only the trailing nulls are dropped before appending)
BatchUpdaterTrimsOnly(prev, newPhotos) == TrimTrailing(prev) \o newPhotos

\* const cleanedPrev = prev.filter(c => c !== null); [...cleanedPrev, ...newPhotos]
BatchUpdater(prev, newPhotos) ==
  SelectSeq(prev, LAMBDA c : c # NULL) \o newPhotos

\* (variant: the swap updater's trailing-null trim is applied here too)
SingleUpdaterTrims(prev, targetIndex, img) ==
  TrimTrailing([ExtendTo(prev, targetIndex) EXCEPT ![targetIndex + 1] = img])

SingleUpdater(prev, targetIndex, img) ==
  [ExtendTo(prev, targetIndex) EXCEPT ![targetIndex + 1] = img]

\* (variant: the exchange without the temp, the source's card is lost)
SwapUpdaterNoTemp(prev, sourceGlobalIndex, targetGlobalIndex) ==
  LET ext == ExtendTo(prev, Max(sourceGlobalIndex, targetGlobalIndex))
      swapped == [ext EXCEPT ![sourceGlobalIndex + 1] = ext[targetGlobalIndex + 1]]
  IN TrimTrailing(swapped)

SwapUpdater(prev, sourceGlobalIndex, targetGlobalIndex) ==
  LET ext == ExtendTo(prev, Max(sourceGlobalIndex, targetGlobalIndex))
      swapped == [ext EXCEPT ![sourceGlobalIndex + 1] = ext[targetGlobalIndex + 1],
                             ![targetGlobalIndex + 1] = ext[sourceGlobalIndex + 1]]
  IN TrimTrailing(swapped)

\* (variant: splice(globalIndex) without the count removes the rest too)
RemoveUpdaterToEnd(prev, globalIndex) == SubSeq(prev, 1, Min(globalIndex, Len(prev)))

\* updated.splice(globalIndex, 1): nothing is removed at or past the end
RemoveUpdater(prev, globalIndex) ==
  IF globalIndex < Len(prev)
    THEN SubSeq(prev, 1, globalIndex) \o SubSeq(prev, globalIndex + 2, Len(prev))
    ELSE prev

\* What removeCard reports to its caller: it returns nothing and raises
\* nothing, whatever the index (splice at or past the end is silent).
RemoveOutcome(prev, globalIndex) == "done"

(* ---------- timers ---------- *)
\* A pending setTimeout: kind "press" (startDrag's long-press callback, with
\* the globalIndex, allCards[globalIndex] and clientX/Y its closure holds),
\* "hit" (endDrag's hit test, with the draggedIndex its closure holds and the
\* slot position under the release point), "jump" (handleBatchUpload's
\* setCurrentPage) or "settle" (handleGenerateAll's wait). tracked: the
\* timer touchTimerRef.current names.
Timeout(kind, idx, data, pos, rel, tracked) ==
  [kind |-> kind, idx |-> idx, data |-> data, pos |-> pos, rel |-> rel,
   tracked |-> tracked]

Delay(kind) ==
  CASE kind = "press" -> LongPressDelay
    [] kind = "hit" -> HitTestDelay
    [] kind = "jump" -> JumpDelay
    [] kind = "settle" -> SettleDelay

InsertAt(q, p, t) == SubSeq(q, 1, p) \o <<t>> \o SubSeq(q, p + 1, Len(q))

\* The queues a new timeout can give: it is due after every pending timeout
\* whose delay is not longer than its own, and before or after the others.
Schedule(q, t) ==
  {InsertAt(q, p, t) :
     p \in {p \in 0..Len(q) :
              \A k \in (p + 1)..Len(q) : Delay(q[k].kind) > Delay(t.kind)}}

\* touchTimerRef.current = setTimeout(...) forgets the timer it named
Untrack(q) == [k \in 1..Len(q) |-> [q[k] EXCEPT !.tracked = FALSE]]

\* if (touchTimerRef.current) { clearTimeout(...); touchTimerRef.current = null }
ClearTracked(q) == SelectSeq(q, LAMBDA t : ~t.tracked)

HeadIs(kind) == timeouts # <<>> /\ Head(timeouts).kind = kind

(* ---------- the log ---------- *)
Op(op, i, j, note) == [op |-> op, i |-> i, j |-> j, note |-> note]

(* ---------- what the screen shows ---------- *)
IdleDrag == [isDragging |-> FALSE, draggedIndex |-> NoIndex,
             draggedData |-> NULL, x |-> 0, y |-> 0]

\* cards: the Collection of the render whose handleGenerateAll is running
IdleGen == [pc |-> "idle", i |-> 0, total |-> 0, images |-> <<>>, cards |-> <<>>]

NoTarget == [slot |-> NoIndex, part |-> "none"]

hasPhotos == \E k \in 1..Len(allCards) : allCards[k] # NULL

\* The result modal and the preview overlay cover the editor (fixed inset-0).
EditorReachable == ~isPreviewMode /\ generatedImages = <<>>

\* The delete button of the shown page's slot k is rendered.
DeleteShown(k) ==
  LET g == currentPage * ITEMS_PER_PAGE + k
  IN At(allCards, g) # NULL /\ dragState.draggedIndex # g

SlotTargets ==
  {[slot |-> k, part |-> "body"] : k \in 0..MaxSlot}
    \cup {[slot |-> k, part |-> "del"] : k \in {k \in 0..MaxSlot : DeleteShown(k)}}

Init ==
  /\ allCards = <<>>
  /\ currentPage = 0
  /\ isGenerating = FALSE
  /\ generatedImages = <<>>
  /\ dragState = IdleDrag
  /\ isPreviewMode = FALSE
  /\ previewPage = 0
  /\ isDraggingRef = FALSE
  /\ dragStartPosRef = <<0, 0>>
  /\ timeouts = <<>>
  /\ reads = <<>>
  /\ gen = IdleGen
  /\ inflight = {}
  /\ mouseDownOn = NoTarget
  /\ last = Op("init", NoIndex, NoIndex, "")

collVars == <<allCards, currentPage>>
dragVars == <<dragState, isDraggingRef, dragStartPosRef>>
previewVars == <<isPreviewMode, previewPage>>
genVars == <<isGenerating, generatedImages, gen, inflight>>

(* ---------- drag and drop ---------- *)
\* startDrag, as a change of the ref and of the timer queue
StartDrag(pos, indexOnPage) ==
  LET globalIndex == currentPage * ITEMS_PER_PAGE + indexOnPage
      t == Timeout("press", globalIndex, At(allCards, globalIndex), pos, NoIndex, TRUE)
  IN /\ Len(timeouts) < MaxTimeouts
     /\ dragStartPosRef' = pos
     /\ timeouts' \in Schedule(Untrack(timeouts), t)

\* onTouchStart of the page container, handleTouchStart: a finger goes down
\* on slot position indexOnPage (on the slot or on its delete button)
TouchStart(pos, indexOnPage) ==
  /\ EditorReachable
  /\ StartDrag(pos, indexOnPage)
  /\ last' = Op("touchStart", NoIndex, NoIndex, "")
  /\ UNCHANGED <<collVars, dragState, isDraggingRef, previewVars, genVars,
                 reads, mouseDownOn>>

\* onMouseDown of the page container, handleMouseDown
MouseDown(pos, target) ==
  /\ EditorReachable
  /\ target \in SlotTargets
  /\ mouseDownOn = NoTarget
  /\ StartDrag(pos, target.slot)
  /\ mouseDownOn' = target
  /\ last' = Op("mouseDown", NoIndex, NoIndex, "")
  /\ UNCHANGED <<collVars, dragState, isDraggingRef, previewVars, genVars, reads>>

Exceeds(pos) ==
  \/ Abs(pos[1] - dragStartPosRef[1]) > MoveThreshold
  \/ Abs(pos[2] - dragStartPosRef[2]) > MoveThreshold

TrackedPending == \E k \in 1..Len(timeouts) : timeouts[k].tracked

\* A pointer event outside a gesture (no drag active, no timer that
\* touchTimerRef names) changes nothing in moveDrag and endDrag.
InGesture == isDraggingRef \/ TrackedPending

\* (variant: the move rebuilds the DragSession from the Collection, taking the
\* payload anew at the source index)
MoveDragRecaptures(pos) ==
  IF isDraggingRef
    THEN /\ dragState' = [dragState EXCEPT
                            !.x = pos[1], !.y = pos[2],
                            !.draggedData = At(allCards, dragState.draggedIndex)]
         /\ UNCHANGED timeouts
    ELSE /\ timeouts' = IF Exceeds(pos) THEN ClearTracked(timeouts) ELSE timeouts
         /\ UNCHANGED dragState

\* moveDrag
MoveDrag(pos) ==
  IF isDraggingRef
    THEN /\ dragState' = [dragState EXCEPT !.x = pos[1], !.y = pos[2]]
         /\ UNCHANGED timeouts
    ELSE /\ timeouts' = IF Exceeds(pos) THEN ClearTracked(timeouts) ELSE timeouts
         /\ UNCHANGED dragState

MoveNote(pos) == IF Exceeds(pos) THEN "far" ELSE "near"

\* the root's onTouchMove, handleTouchMove
TouchMove(pos) ==
  /\ InGesture
  /\ IF isPreviewMode THEN UNCHANGED <<dragState, timeouts>> ELSE MoveDrag(pos)
  /\ last' = Op("touchMove", NoIndex, NoIndex, MoveNote(pos))
  /\ UNCHANGED <<collVars, isDraggingRef, dragStartPosRef, previewVars, genVars,
                 reads, mouseDownOn>>

\* the root's onMouseMove: (e) => isDraggingRef.current && handleMouseMove(e)
MouseMove(pos) ==
  /\ InGesture
  /\ IF isDraggingRef /\ ~isPreviewMode
       THEN MoveDrag(pos)
       ELSE UNCHANGED <<dragState, timeouts>>
  /\ last' = Op("mouseMove", NoIndex, NoIndex, MoveNote(pos))
  /\ UNCHANGED <<collVars, isDraggingRef, dragStartPosRef, previewVars, genVars,
                 reads, mouseDownOn>>

\* the long-press callback of startDrag
LongPressFire ==
  /\ HeadIs("press")
  /\ LET t == Head(timeouts)
     IN /\ isDraggingRef' = TRUE
        /\ dragState' = [isDragging |-> TRUE, draggedIndex |-> t.idx,
                         draggedData |-> t.data, x |-> t.pos[1], y |-> t.pos[2]]
        /\ last' = Op("longPress", t.idx, NoIndex, "")
  /\ timeouts' = Tail(timeouts)
  /\ UNCHANGED <<collVars, dragStartPosRef, previewVars, genVars, reads,
                 mouseDownOn>>

\* endDrag, for a pointer released over slot position rel of the shown page
\* (NoIndex: over no slot)
EndDrag(rel) ==
  IF isPreviewMode
    THEN UNCHANGED <<dragState, isDraggingRef, timeouts>>
    ELSE LET q == ClearTracked(timeouts)
         IN IF isDraggingRef
              THEN /\ isDraggingRef' = FALSE
                   /\ dragState' = [dragState EXCEPT !.isDragging = FALSE]
                   /\ Len(q) < MaxTimeouts
                   /\ timeouts' \in Schedule(q,
                        Timeout("hit", dragState.draggedIndex, NULL, <<0, 0>>, rel, FALSE))
              ELSE /\ timeouts' = q
                   /\ UNCHANGED <<dragState, isDraggingRef>>

\* the root's onTouchEnd
TouchEnd(rel) ==
  /\ InGesture
  /\ EndDrag(rel)
  /\ last' = Op("touchEnd", NoIndex, NoIndex, "")
  /\ UNCHANGED <<collVars, dragStartPosRef, previewVars, genVars, reads,
                 mouseDownOn>>

\* removeCard's updater and its page correction
RemoveCardPage(cards, page, indexOnPage) ==
  LET updated == RemoveUpdater(cards, page * ITEMS_PER_PAGE + indexOnPage)
      newTotalPages == totalPages(updated)
  IN IF page >= newTotalPages THEN newTotalPages - 1 ELSE page

\* The root's onMouseUp (endDrag), then the click the browser dispatches when
\* the button is released on the element it went down on: the slot's onClick
\* (handleSlotClick, which opens the file picker; choosing a file runs
\* handleSingleUploadChange) or the delete button's onClick (removeCard).
MouseUp(up, chosen) ==
  /\ mouseDownOn # NoTarget
  /\ up \in SlotTargets \cup {NoTarget}
  /\ up # NoTarget => EditorReachable
  /\ mouseDownOn' = NoTarget
  /\ EndDrag(up.slot)
  /\ LET g == currentPage * ITEMS_PER_PAGE + up.slot
         click == up # NoTarget /\ up = mouseDownOn
     IN CASE click /\ up.part = "del" ->
               /\ chosen = FALSE
               /\ allCards' = RemoveUpdater(allCards, g)
               /\ currentPage' = RemoveCardPage(allCards, currentPage, up.slot)
               /\ last' = Op("remove", up.slot, g,
                             IF g < Len(allCards) THEN "inRange" ELSE "outOfRange")
               /\ UNCHANGED reads
          [] click /\ up.part = "body" /\ ~isDraggingRef' ->
               /\ chosen => Len(reads) < MaxReads
               /\ reads' = IF chosen
                             THEN Append(reads, [kind |-> "single", idx |-> g, n |-> 1, failed |-> FALSE])
                             ELSE reads
               /\ last' = Op("slotClick", up.slot, g, IF chosen THEN "chosen" ELSE "cancelled")
               /\ UNCHANGED collVars
          [] OTHER ->
               /\ chosen = FALSE
               /\ last' = Op("mouseUp", NoIndex, NoIndex, "")
               /\ UNCHANGED <<collVars, reads>>
  /\ UNCHANGED <<dragStartPosRef, previewVars, genVars>>

\* document.elementFromPoint(...).closest('[data-slot-index]') at the release
\* point: a slot of the shown page, a slot of the preview overlay's page
\* (pick, its layout being another one), or nothing under the result modal.
HitSlot(rel, pick) ==
  IF isPreviewMode THEN (IF pick = NoIndex THEN NoIndex
                         ELSE previewPage * ITEMS_PER_PAGE + pick)
  ELSE IF generatedImages # <<>> \/ rel = NoIndex THEN NoIndex
  ELSE currentPage * ITEMS_PER_PAGE + rel

\* the callback of endDrag's setTimeout(..., 50)
\* (variant: the test that the target is another slot than the source is
\* missing)
HitTestFireOnSelf(pick) ==
  /\ HeadIs("hit")
  /\ pick # NoIndex => isPreviewMode
  /\ LET t == Head(timeouts)
         targetGlobalIndex == HitSlot(t.rel, pick)
         sourceGlobalIndex == t.idx
     IN IF targetGlobalIndex # NoIndex /\ sourceGlobalIndex # NoIndex
          THEN /\ allCards' = SwapUpdater(allCards, sourceGlobalIndex, targetGlobalIndex)
               /\ last' = Op(IF targetGlobalIndex # sourceGlobalIndex
                               THEN "swap" ELSE "noSwap",
                             sourceGlobalIndex, targetGlobalIndex, "")
          ELSE /\ allCards' = allCards
               /\ last' = Op("noSwap", sourceGlobalIndex, targetGlobalIndex, "")
  /\ dragState' = IdleDrag
  /\ timeouts' = Tail(timeouts)
  /\ UNCHANGED <<currentPage, isDraggingRef, dragStartPosRef, previewVars, genVars,
                 reads, mouseDownOn>>

HitTestFire(pick) ==
  /\ HeadIs("hit")
  /\ pick # NoIndex => isPreviewMode
  /\ LET t == Head(timeouts)
         targetGlobalIndex == HitSlot(t.rel, pick)
         sourceGlobalIndex == t.idx
     IN IF /\ targetGlobalIndex # NoIndex
           /\ sourceGlobalIndex # NoIndex
           /\ targetGlobalIndex # sourceGlobalIndex
          THEN /\ allCards' = SwapUpdater(allCards, sourceGlobalIndex, targetGlobalIndex)
               /\ last' = Op("swap", sourceGlobalIndex, targetGlobalIndex, "")
          ELSE /\ allCards' = allCards
               /\ last' = Op("noSwap", sourceGlobalIndex, targetGlobalIndex, "")
  /\ dragState' = IdleDrag
  /\ timeouts' = Tail(timeouts)
  /\ UNCHANGED <<currentPage, isDraggingRef, dragStartPosRef, previewVars, genVars,
                 reads, mouseDownOn>>

(* ---------- uploads ---------- *)
\* handleBatchUpload up to its await: n files are being read
HandleBatchUpload(n) ==
  /\ EditorReachable
  /\ Len(reads) < MaxReads
  /\ reads' = Append(reads, [kind |-> "batch", idx |-> NoIndex, n |-> n,
                             failed |-> FALSE])
  /\ last' = Op("batchUpload", NoIndex, NoIndex, "")
  /\ UNCHANGED <<collVars, dragVars, previewVars, genVars, timeouts, mouseDownOn>>

\* handleBatchUpload after Promise.all: every file of read k was loaded as img
BatchLoaded(k, img) ==
  /\ k \in 1..Len(reads)
  /\ reads[k].kind = "batch"
  /\ ~reads[k].failed
  /\ LET updated == BatchUpdater(allCards, [m \in 1..reads[k].n |-> img])
         newLastPage == Max(0, Ceil(Len(updated), ITEMS_PER_PAGE) - 1)
     IN /\ Len(timeouts) < MaxTimeouts
        /\ allCards' = updated
        /\ timeouts' \in Schedule(timeouts,
             Timeout("jump", newLastPage, NULL, <<0, 0>>, NoIndex, FALSE))
        /\ last' = Op("batch", reads[k].n, NoIndex, "")
  /\ reads' = SubSeq(reads, 1, k - 1) \o SubSeq(reads, k + 1, Len(reads))
  /\ UNCHANGED <<currentPage, dragVars, previewVars, genVars, mouseDownOn>>

\* A FileReader of read k fails: it fires its error event, for which neither
\* handleBatchUpload nor handleSingleUploadChange sets a handler. The file's
\* promise stays pending, and so does the batch's Promise.all.
ReadFailed(k) ==
  /\ k \in 1..Len(reads)
  /\ ~reads[k].failed
  /\ reads' = [reads EXCEPT ![k].failed = TRUE]
  /\ last' = Op("readError", reads[k].n, NoIndex, reads[k].kind)
  /\ UNCHANGED <<collVars, dragVars, previewVars, genVars, timeouts, mouseDownOn>>

\* setTimeout(() => setCurrentPage(newLastPage), 100)
JumpFire ==
  /\ HeadIs("jump")
  /\ currentPage' = Head(timeouts).idx
  /\ timeouts' = Tail(timeouts)
  /\ last' = Op("jump", Head(timeouts).idx, NoIndex, "")
  /\ UNCHANGED <<allCards, dragVars, previewVars, genVars, reads, mouseDownOn>>

\* reader.onload of handleSingleUploadChange
SingleLoaded(k, img) ==
  /\ k \in 1..Len(reads)
  /\ reads[k].kind = "single"
  /\ ~reads[k].failed
  /\ allCards' = SingleUpdater(allCards, reads[k].idx, img)
  /\ reads' = SubSeq(reads, 1, k - 1) \o SubSeq(reads, k + 1, Len(reads))
  /\ last' = Op("setSlot", reads[k].idx, NoIndex, img)
  /\ UNCHANGED <<currentPage, dragVars, previewVars, genVars, timeouts,
                 mouseDownOn>>

(* ---------- navigation and preview ---------- *)
GoToPrevPage ==
  /\ EditorReachable
  /\ totalPages(allCards) > 1
  /\ currentPage # 0
  /\ currentPage' = Max(0, currentPage - 1)
  /\ last' = Op("prevPage", NoIndex, NoIndex, "")
  /\ UNCHANGED <<allCards, dragVars, previewVars, genVars, timeouts, reads,
                 mouseDownOn>>

GoToNextPage ==
  /\ EditorReachable
  /\ totalPages(allCards) > 1
  /\ currentPage # totalPages(allCards) - 1
  /\ currentPage' = Min(totalPages(allCards) - 1, currentPage + 1)
  /\ last' = Op("nextPage", NoIndex, NoIndex, "")
  /\ UNCHANGED <<allCards, dragVars, previewVars, genVars, timeouts, reads,
                 mouseDownOn>>

OpenPreview ==
  /\ EditorReachable
  /\ hasPhotos
  /\ previewPage' = currentPage
  /\ isPreviewMode' = TRUE
  /\ last' = Op("openPreview", NoIndex, NoIndex, "")
  /\ UNCHANGED <<collVars, dragVars, genVars, timeouts, reads, mouseDownOn>>

ClosePreview ==
  /\ isPreviewMode
  /\ isPreviewMode' = FALSE
  /\ currentPage' = previewPage
  /\ last' = Op("closePreview", NoIndex, NoIndex, "")
  /\ UNCHANGED <<allCards, previewPage, dragVars, genVars, timeouts, reads,
                 mouseDownOn>>

\* the preview's right arrow, and handlePreviewSwipeEnd with diff > 50
PreviewNext ==
  /\ isPreviewMode
  /\ previewPage < totalPages(allCards) - 1
  /\ previewPage' = previewPage + 1
  /\ last' = Op("previewNext", NoIndex, NoIndex, "")
  /\ UNCHANGED <<collVars, isPreviewMode, dragVars, genVars, timeouts, reads,
                 mouseDownOn>>

\* the preview's left arrow, and handlePreviewSwipeEnd with diff < -50
PreviewPrev ==
  /\ isPreviewMode
  /\ previewPage > 0
  /\ previewPage' = previewPage - 1
  /\ last' = Op("previewPrev", NoIndex, NoIndex, "")
  /\ UNCHANGED <<collVars, isPreviewMode, dragVars, genVars, timeouts, reads,
                 mouseDownOn>>

(* ---------- export ---------- *)
\* (variant: the button stays enabled during a run)
DisabledWhenEmptyOnly == Len(allCards) = 0

\* disabled={allCards.length === 0 || isGenerating}
GenerateDisabled == Len(allCards) = 0 \/ isGenerating

\* exportRefs.current[i]: the hidden render area holds one BinderPage per
\* page of the Collection while isGenerating
ElementExists(i) == isGenerating /\ i < totalPages(allCards)

\* i++ of the export loop
NextIndex(i) == i + 1

\* the loop index of the next page that has an element, or total
RECURSIVE NextPage(_, _)
NextPage(i, total) ==
  IF i >= total THEN total
  ELSE IF ElementExists(i) THEN i
  ELSE NextPage(NextIndex(i), total)

\* window.html2canvas(element, ...): the request carries what the element shows
Request(i) == [page |-> i, cards |-> getCardsForPage(allCards, i)]

\* The export loop from index i with the images so far, up to its next await
\* or to its end (setGeneratedImages, then finally).
RunLoop(i, images, pending) ==
  LET j == NextPage(i, gen.total)
  IN IF j < gen.total
       THEN /\ gen' = [gen EXCEPT !.pc = "raster", !.i = j, !.images = images]
            /\ inflight' = pending \cup {Request(j)}
            /\ UNCHANGED <<isGenerating, generatedImages>>
       ELSE /\ generatedImages' = images
            /\ isGenerating' = FALSE
            /\ gen' = IdleGen
            /\ inflight' = pending

\* (variant: setIsGenerating(true) runs before the two checks)
HandleGenerateAllFlagFirst(available) ==
  /\ EditorReachable
  /\ Len(allCards) # 0 /\ ~isGenerating
  /\ isGenerating' = TRUE
  /\ IF ~available
       THEN /\ last' = Op("generate", NoIndex, NoIndex, "unavailable")
            /\ UNCHANGED <<gen, timeouts>>
       ELSE /\ Len(timeouts) < MaxTimeouts
            /\ gen' = [pc |-> "settle", i |-> 0, total |-> totalPages(allCards),
                       images |-> <<>>, cards |-> allCards]
            /\ timeouts' \in Schedule(timeouts,
                 Timeout("settle", NoIndex, NULL, <<0, 0>>, NoIndex, FALSE))
            /\ last' = Op("generate", NoIndex, NoIndex, "started")
  /\ UNCHANGED <<collVars, dragVars, previewVars, generatedImages, inflight, reads,
                 mouseDownOn>>

\* handleGenerateAll up to its first await; available: window.html2canvas
\* is defined (its script has loaded)
HandleGenerateAll(available) ==
  /\ EditorReachable
  /\ ~GenerateDisabled
  /\ IF ~available
       THEN /\ last' = Op("generate", NoIndex, NoIndex, "unavailable")
            /\ UNCHANGED <<isGenerating, gen, timeouts>>
       ELSE IF Len(allCards) = 0
       THEN /\ last' = Op("generate", NoIndex, NoIndex, "empty")
            /\ UNCHANGED <<isGenerating, gen, timeouts>>
       ELSE /\ Len(timeouts) < MaxTimeouts
            /\ isGenerating' = TRUE
            /\ gen' = [pc |-> "settle", i |-> 0, total |-> totalPages(allCards),
                       images |-> <<>>, cards |-> allCards]
            /\ timeouts' \in Schedule(timeouts,
                 Timeout("settle", NoIndex, NULL, <<0, 0>>, NoIndex, FALSE))
            /\ last' = Op("generate", NoIndex, NoIndex, "started")
  /\ UNCHANGED <<collVars, dragVars, previewVars, generatedImages, inflight, reads,
                 mouseDownOn>>

\* the 800 ms wait is over: the loop starts
SettleFire ==
  /\ HeadIs("settle")
  /\ timeouts' = Tail(timeouts)
  /\ RunLoop(0, <<>>, inflight)
  /\ last' = Op("settle", NoIndex, NoIndex, "")
  /\ UNCHANGED <<collVars, dragVars, previewVars, reads, mouseDownOn>>

\* html2canvas resolved and canvas.toDataURL returned: images.push, next page
RasterResolve(r) ==
  /\ gen.pc = "raster"
  /\ r \in inflight
  /\ RunLoop(NextIndex(gen.i), Append(gen.images, r), inflight \ {r})
  /\ last' = Op(IF gen'.pc = "idle" THEN "published" ELSE "rasterDone",
                r.page, gen.total, "")
  /\ UNCHANGED <<collVars, dragVars, previewVars, timeouts, reads, mouseDownOn>>

\* (variant: the catch block publishes the images collected so far)
RasterRejectPublishes(r) ==
  /\ gen.pc = "raster"
  /\ r \in inflight
  /\ inflight' = inflight \ {r}
  /\ isGenerating' = FALSE
  /\ generatedImages' = gen.images
  /\ gen' = IdleGen
  /\ last' = Op("rasterFail", r.page, gen.total, "")
  /\ UNCHANGED <<collVars, dragVars, previewVars, timeouts, reads, mouseDownOn>>

\* (variant: no finally block, the failure path leaves the flag set)
RasterRejectKeepsFlag(r) ==
  /\ gen.pc = "raster"
  /\ r \in inflight
  /\ inflight' = inflight \ {r}
  /\ gen' = IdleGen
  /\ last' = Op("rasterFail", r.page, gen.total, "")
  /\ UNCHANGED <<collVars, dragVars, previewVars, isGenerating, generatedImages,
                 timeouts, reads, mouseDownOn>>

\* html2canvas rejected or canvas.toDataURL threw: catch, then finally
RasterReject(r) ==
  /\ gen.pc = "raster"
  /\ r \in inflight
  /\ inflight' = inflight \ {r}
  /\ isGenerating' = FALSE
  /\ gen' = IdleGen
  /\ last' = Op("rasterFail", r.page, gen.total, "")
  /\ UNCHANGED <<collVars, dragVars, previewVars, generatedImages, timeouts, reads,
                 mouseDownOn>>

\* the result modal's close buttons: setGeneratedImages([])
CloseModal ==
  /\ generatedImages # <<>>
  /\ ~isPreviewMode
  /\ generatedImages' = <<>>
  /\ last' = Op("closeModal", NoIndex, NoIndex, "")
  /\ UNCHANGED <<collVars, dragVars, previewVars, isGenerating, gen, inflight,
                 timeouts, reads, mouseDownOn>>

(* ---------- the application ---------- *)
Releases == 0..MaxSlot \cup {NoIndex}

\* the batch sizes that keep the Collection within bound slots
Batches(sizes, bound) == {n \in sizes : Len(allCards) + n <= bound}

Next ==
  \/ \E pos \in DownPoints, k \in 0..MaxSlot : TouchStart(pos, k)
  \/ \E pos \in DownPoints, target \in SlotTargets : MouseDown(pos, target)
  \/ \E pos \in Points : TouchMove(pos)
  \/ \E pos \in Points : MouseMove(pos)
  \/ \E rel \in Releases : TouchEnd(rel)
  \/ \E up \in SlotTargets \cup {NoTarget}, chosen \in BOOLEAN : MouseUp(up, chosen)
  \/ LongPressFire
  \/ \E pick \in Releases : HitTestFire(pick)
  \/ \E n \in Batches(BatchSizes, MaxLen) : HandleBatchUpload(n)
  \/ \E k \in 1..MaxReads, img \in Images : BatchLoaded(k, img)
  \/ \E k \in 1..MaxReads, img \in Images : SingleLoaded(k, img)
  \/ \E k \in 1..MaxReads : ReadFailed(k)
  \/ JumpFire
  \/ GoToPrevPage
  \/ GoToNextPage
  \/ OpenPreview
  \/ ClosePreview
  \/ PreviewNext
  \/ PreviewPrev
  \/ \E available \in BOOLEAN : HandleGenerateAll(available)
  \/ SettleFire
  \/ \E r \in inflight : RasterResolve(r)
  \/ \E r \in inflight : RasterReject(r)
  \/ CloseModal

Spec == Init /\ [][Next]_vars

(***************************************************************************)
(* The application with part of the user's inputs withheld. Each is Spec   *)
(* with fewer disjuncts, so each of its behaviours is a behaviour of Spec. *)
(***************************************************************************)

\* The gesture machine: both pointer devices, one page of slots, uploads of
\* one file. Export and preview are not used; they write none of the
\* variables of the gesture.
DragNext ==
  \/ \E pos \in DownPoints, k \in 0..MaxSlot : TouchStart(pos, k)
  \/ \E pos \in DownPoints, target \in SlotTargets : MouseDown(pos, target)
  \/ \E pos \in Points : TouchMove(pos)
  \/ \E pos \in Points : MouseMove(pos)
  \/ \E rel \in Releases : TouchEnd(rel)
  \/ \E up \in SlotTargets \cup {NoTarget}, chosen \in BOOLEAN : MouseUp(up, chosen)
  \/ LongPressFire
  \/ \E pick \in Releases : HitTestFire(pick)
  \/ \E n \in Batches({1}, DragMaxLen) : HandleBatchUpload(n)
  \/ \E k \in 1..MaxReads, img \in Images : BatchLoaded(k, img)
  \/ \E k \in 1..MaxReads, img \in Images : SingleLoaded(k, img)
  \/ JumpFire

SpecDrag == Init /\ [][DragNext]_vars

\* The export run among batch uploads, page turns and removals. The mouse is
\* the only pointer: it clicks delete buttons, and its button is released
\* before the long-press timer fires, so no drag starts. A drag writes none
\* of the variables of the export run, and changes the Collection as the
\* uploads and removals here do.
DeleteTargets == {t \in SlotTargets : t.part = "del"}

ExportNext ==
  \/ \E pos \in DownPoints, target \in DeleteTargets : MouseDown(pos, target)
  \/ \E up \in DeleteTargets \cup {NoTarget} : MouseUp(up, FALSE)
  \/ \E n \in Batches(BatchSizes, MaxLen) : HandleBatchUpload(n)
  \/ \E k \in 1..MaxReads, img \in Images : BatchLoaded(k, img)
  \/ JumpFire
  \/ GoToPrevPage
  \/ GoToNextPage
  \/ \E available \in BOOLEAN : HandleGenerateAll(available)
  \/ SettleFire
  \/ \E r \in inflight : RasterResolve(r)
  \/ \E r \in inflight : RasterReject(r)
  \/ CloseModal

SpecExport == Init /\ [][ExportNext]_vars

\* The touch gesture and the preview overlay, on one page of slots.
PreviewDragNext ==
  \/ \E pos \in DownPoints, k \in 0..MaxSlot : TouchStart(pos, k)
  \/ \E pos \in Points : TouchMove(pos)
  \/ \E rel \in Releases : TouchEnd(rel)
  \/ LongPressFire
  \/ \E pick \in Releases : HitTestFire(pick)
  \/ \E n \in Batches({1}, DragMaxLen) : HandleBatchUpload(n)
  \/ \E k \in 1..MaxReads, img \in Images : BatchLoaded(k, img)
  \/ JumpFire
  \/ OpenPreview
  \/ ClosePreview

SpecPreviewDrag == Init /\ [][PreviewDragNext]_vars

\* The uploads with failing reads, and the page turns. A read that does not
\* fail ends by loading, and a pending timeout ends by firing.
UploadNext ==
  \/ \E n \in Batches(BatchSizes, MaxLen) : HandleBatchUpload(n)
  \/ \E k \in 1..MaxReads, img \in Images : BatchLoaded(k, img)
  \/ \E k \in 1..MaxReads : ReadFailed(k)
  \/ JumpFire
  \/ GoToPrevPage
  \/ GoToNextPage

SpecUpload ==
  /\ Init
  /\ [][UploadNext]_vars
  /\ WF_vars(\E k \in 1..MaxReads, img \in Images : BatchLoaded(k, img))
  /\ WF_vars(JumpFire)

(* ---------- the collection operations on their own ---------- *)
Slots == {NULL} \cup CollImages

RECURSIVE SeqsUpTo(_, _)
SeqsUpTo(S, n) ==
  IF n = 0 THEN {<<>>}
  ELSE LET shorter == SeqsUpTo(S, n - 1)
       IN shorter \cup {Append(c, x) : c \in {c \in shorter : Len(c) = n - 1}, x \in S}

\* Every sequence of slots is a Collection the application can reach: single
\* uploads write any slot of a page, and removeCard then shortens the result.
CollInit ==
  /\ Init!2 /\ Init!3 /\ Init!4 /\ Init!5 /\ Init!6 /\ Init!7 /\ Init!8
  /\ Init!9 /\ Init!10 /\ Init!11 /\ Init!12 /\ Init!13 /\ Init!14 /\ Init!15
  /\ allCards \in SeqsUpTo(Slots, CollMaxLen)

\* swap: the updater of endDrag's hit test
CollSwap(i, j) ==
  /\ i # j
  /\ allCards' = SwapUpdater(allCards, i, j)
  /\ last' = Op("swap", i, j, "")
  /\ UNCHANGED <<currentPage, dragVars, previewVars, genVars, timeouts, reads,
                 mouseDownOn>>

\* the results of reading the files of a batch, in the files' order
PhotoBatches == <<<<"a">>, <<"b", "a">>>>

\* appendBatch: the updater of handleBatchUpload with batch b of PhotoBatches,
\* and the page jump it schedules
CollBatch(b) ==
  LET newPhotos == PhotoBatches[b]
      updated == BatchUpdater(allCards, newPhotos)
      newLastPage == Max(0, Ceil(Len(updated), ITEMS_PER_PAGE) - 1)
  IN /\ Len(allCards) <= CollMaxLen
     /\ Len(timeouts) < MaxTimeouts
     /\ allCards' = updated
     /\ timeouts' \in Schedule(timeouts,
          Timeout("jump", newLastPage, NULL, <<0, 0>>, NoIndex, FALSE))
     /\ last' = Op("batch", Len(newPhotos), b,
                   IF \E k \in 1..Len(allCards) : allCards[k] = NULL
                     THEN "emptiesDropped" ELSE "")
     /\ UNCHANGED <<currentPage, dragVars, previewVars, genVars, reads, mouseDownOn>>

\* setSlot: the updater of handleSingleUploadChange's reader.onload
CollSet(i, img) ==
  /\ allCards' = SingleUpdater(allCards, i, img)
  /\ last' = Op("setSlot", i, NoIndex, img)
  /\ UNCHANGED <<currentPage, dragVars, previewVars, genVars, timeouts, reads,
                 mouseDownOn>>

\* two drags that exchange the same two slots, one after the other
CollSwapTwice(i, j) ==
  /\ i # j
  /\ allCards' = SwapUpdater(SwapUpdater(allCards, i, j), i, j)
  /\ last' = Op("swapTwice", i, j, "")
  /\ UNCHANGED <<currentPage, dragVars, previewVars, genVars, timeouts, reads,
                 mouseDownOn>>

\* removeAt: the updater of removeCard
CollRemove(i) ==
  /\ allCards' = RemoveUpdater(allCards, i)
  /\ last' = Op("remove", i, i, IF i < Len(allCards) THEN "inRange" ELSE "outOfRange")
  /\ UNCHANGED <<currentPage, dragVars, previewVars, genVars, timeouts, reads,
                 mouseDownOn>>

CollNext ==
  \/ \E i \in 0..CollMaxIdx, j \in 0..CollMaxIdx : CollSwap(i, j)
  \/ \E i \in 0..CollMaxIdx, j \in 0..CollMaxIdx : CollSwapTwice(i, j)
  \/ \E i \in 0..CollMaxIdx : CollRemove(i)
  \/ \E b \in 1..Len(PhotoBatches) : CollBatch(b)
  \/ \E i \in 0..CollMaxIdx, img \in CollImages : CollSet(i, img)
  \/ JumpFire

SpecColl == CollInit /\ [][CollNext]_vars

(***************************************************************************)
(* Properties of the gesture machine (SpecDrag)                            *)
(***************************************************************************)

\* C1: while the gesture is Armed (the long-press timer is pending and no
\* drag is active), a pointer move of more than MoveThreshold pixels in x or
\* in y, delivered by the touch handlers or by the mouse whose button is
\* down, clears the timer, so that the gesture cannot enter Dragging.
C1_FarMoveDisarms ==
  [][(/\ \/ last'.op = "touchMove"
         \/ last'.op = "mouseMove" /\ mouseDownOn # NoTarget
      /\ last'.note = "far"
      /\ ~isDraggingRef
      /\ TrackedPending)
     => ~TrackedPending']_vars

(***************************************************************************)
(* Properties of the export run (SpecExport)                               *)
(***************************************************************************)

\* C2: from the step that sets isGenerating until the step that clears it,
\* no step changes the Collection.
C2_FrozenWhileGenerating == [][isGenerating => allCards' = allCards]_vars

\* C3: when a rasterization fails, the run ends there (no request is left
\* outstanding, the loop is over, the flag is cleared), the published list
\* and the Collection are what they were before the step, and the published
\* list is what it was when the run began: empty, as it is throughout a run.
\* Only the end of a complete loop and the closing of the result modal write
\* the published list.
C3_FailureAborts ==
  [][/\ isGenerating => generatedImages = <<>>
     /\ generatedImages' # generatedImages => last'.op \in {"published", "closeModal"}
     /\ last'.op = "rasterFail" =>
          /\ generatedImages' = generatedImages
          /\ allCards' = allCards
          /\ currentPage' = currentPage
          /\ inflight' = {}
          /\ gen'.pc = "idle"
          /\ ~isGenerating']_vars

\* a run failed on its second or a later page, after collecting an image
C3_Witness ==
  /\ last.op = "rasterFail"
  /\ last.i >= 1
  /\ generatedImages = <<>>
  /\ ~isGenerating

\* C4: the list a successful run publishes has one entry for each page of
\* the Collection, entry k being the rasterization of page k.
C4_OneImagePerPage ==
  last.op = "published" =>
    /\ Len(generatedImages) = totalPages(allCards)
    /\ \A k \in 1..Len(generatedImages) : generatedImages[k].page = k - 1

PagesAscending(images) ==
  \A a, b \in 1..Len(images) : a < b => images[a].page < images[b].page

\* C5: at most one rasterization request is outstanding; it is the one of the
\* loop's current page, every page rasterized before it has a lower index,
\* and the images are collected and published in ascending page order.
C5_OneAtATime ==
  /\ Cardinality(inflight) <= 1
  /\ \A r \in inflight :
       /\ gen.pc = "raster"
       /\ r.page = gen.i
       /\ \A k \in 1..Len(gen.images) : gen.images[k].page < r.page
  /\ PagesAscending(gen.images)
  /\ PagesAscending(generatedImages)

\* the second page is being rasterized, the first one's image is collected
C5_Witness ==
  /\ gen.pc = "raster"
  /\ Len(gen.images) >= 1
  /\ inflight # {}

\* C6: an export triggered while html2canvas is unavailable, or on an empty
\* Collection, returns at once: the flag is not set (so the off-screen
\* render area is not mounted), no timer is started, nothing is requested,
\* and the published list is unchanged.
C6_FailFast ==
  [][(last'.op = "generate" /\ last'.note \in {"unavailable", "empty"}) =>
       /\ ~isGenerating /\ ~isGenerating'
       /\ gen' = gen
       /\ timeouts' = timeouts
       /\ inflight' = inflight /\ inflight' = {}
       /\ generatedImages' = generatedImages
       /\ allCards' = allCards]_vars

\* export was triggered on a Collection with cards, html2canvas unavailable
C6_Witness ==
  /\ last.op = "generate"
  /\ last.note = "unavailable"
  /\ allCards # <<>>
  /\ ~isGenerating

(***************************************************************************)
(* Properties of the collection operations                                 *)
(***************************************************************************)

\* C7: after a batch append, a removal or a swap has been committed, the
\* Collection is empty or its last slot holds a card. (SpecDrag)
C7_NoTrailingEmpty ==
  last.op \in {"batch", "remove", "swap"} =>
    (allCards = <<>> \/ allCards[Len(allCards)] # NULL)

\* C8: swap(i, j) with i # j puts the content of slot i in slot j and that of
\* slot j in slot i, a slot past the end counting as empty, and leaves every
\* other slot's content as it was; when the Collection has no empty slot and
\* i and j are both inside it, its length stays the same. (SpecColl)
C8_SwapExchanges ==
  [][last'.op = "swap" =>
       LET i == last'.i
           j == last'.j
           n == Max(Max(i, j), Max(Len(allCards), Len(allCards')))
       IN /\ i # j
          /\ \A k \in 0..n :
               At(allCards', k) = IF k = i THEN At(allCards, j)
                                  ELSE IF k = j THEN At(allCards, i)
                                  ELSE At(allCards, k)
          /\ (/\ \A k \in 1..Len(allCards) : allCards[k] # NULL
              /\ i < Len(allCards)
              /\ j < Len(allCards))
             => Len(allCards') = Len(allCards)]_vars

\* a swap has exchanged two slots of different content
C8_Witness ==
  /\ last.op = "swap"
  /\ allCards # <<>>
  /\ At(allCards, last.i) # At(allCards, last.j)

\* C9: swap(i, j) applied twice in a row gives back the content of every
\* slot (empty slots past the end included), that is the Collection without
\* its trailing empties; and trimming what is trimmed changes nothing.
\* (SpecColl)
C9_SwapTwiceRestores ==
  [][last'.op = "swapTwice" =>
       /\ \A k \in 0..Max(Len(allCards), Len(allCards')) :
            At(allCards', k) = At(allCards, k)
       /\ allCards' = <<>> \/ allCards'[Len(allCards')] # NULL
       /\ Len(allCards') <= Len(allCards)
       /\ TrimTrailing(allCards') = allCards'
       /\ TrimTrailing(TrimTrailing(allCards)) = TrimTrailing(allCards)]_vars

\* two swaps in a row, one of the two indices past the Collection's end
C9_Witness ==
  /\ last.op = "swapTwice"
  /\ allCards # <<>>
  /\ (last.i >= Len(allCards) \/ last.j >= Len(allCards))

\* C10: removeAt(i) with i inside the Collection makes it one slot shorter,
\* keeps the slots before i, and moves each slot after i one index down.
\* (SpecColl)
C10_RemoveShifts ==
  [][(last'.op = "remove" /\ last'.note = "inRange") =>
       LET i == last'.j
       IN /\ i >= 0 /\ i < Len(allCards)
          /\ Len(allCards') = Len(allCards) - 1
          /\ \A k \in 1..Len(allCards') :
               allCards'[k] = IF k - 1 < i THEN allCards[k] ELSE allCards[k + 1]]_vars

\* a slot that had slots after it was removed, an empty slot among the rest
C10_Witness ==
  /\ last.op = "remove"
  /\ last.note = "inRange"
  /\ last.j < Len(allCards)
  /\ \E k \in 1..Len(allCards) : allCards[k] = NULL

C12_AppendKeepsInteriorEmpties ==
  [][last'.op = "batch" =>
       LET present == {k \in 1..Len(allCards) : allCards[k] # NULL}
           lastPresent == IF present = {} THEN 0
                          ELSE CHOOSE k \in present : \A q \in present : q <= k
       IN allCards' = SubSeq(allCards, 1, lastPresent) \o PhotoBatches[last'.j]]_vars

\* C12 amended: appendBatch gives the present slots of the previous
\* Collection in their order, every empty slot dropped (interior ones too),
\* followed by the images in order; the new length is the number of present
\* slots plus the number of images. (SpecColl)
C12_AppendDropsEmpties ==
  [][last'.op = "batch" =>
       LET present == {k \in 1..Len(allCards) : allCards[k] # NULL}
           kept == Cardinality(present)
           newPhotos == PhotoBatches[last'.j]
       IN /\ Len(allCards') = kept + Len(newPhotos)
          /\ \A k \in present :
               allCards'[Cardinality({q \in present : q <= k})] = allCards[k]
          /\ \A m \in 1..Len(newPhotos) : allCards'[kept + m] = newPhotos[m]]_vars

\* two images were appended to a Collection that had an empty slot and cards
C12_Witness ==
  /\ last.op = "batch"
  /\ last.note = "emptiesDropped"
  /\ last.i = 2
  /\ Len(allCards) >= 3

\* a batch of several files, one of which failed to be read, is in flight
FailedBatchPending ==
  \E k \in 1..Len(reads) :
    reads[k].kind = "batch" /\ reads[k].failed /\ reads[k].n > 1

\* C13: when the reading of one file of a batch fails, the batch append
\* still completes: the images of the other files are appended to the
\* Collection. (SpecUpload)
C13_BatchSurvivesFailure ==
  FailedBatchPending ~> (last.op = "batch" /\ ~FailedBatchPending)

\* C14: setSlot(index, image) puts image in the slot at index, leaves every
\* other slot that existed as it was, makes the length the larger of the old
\* length and index + 1, leaves the slots it creates below index empty, and
\* trims nothing. (SpecColl)
C14_SetSlotWrites ==
  [][last'.op = "setSlot" =>
       LET index == last'.i
           old == Len(allCards)
       IN /\ Len(allCards') = Max(old, index + 1)
          /\ allCards'[index + 1] = last'.note
          /\ allCards'[index + 1] # NULL
          /\ \A k \in 1..old : k # index + 1 => allCards'[k] = allCards[k]
          /\ \A k \in (old + 1)..index : allCards'[k] = NULL]_vars

\* a slot past the end was written, empty slots were created below it, and a
\* slot of the old Collection is still there
C14_Witness ==
  /\ last.op = "setSlot"
  /\ last.i >= 2
  /\ allCards[last.i] = NULL
  /\ allCards[1] # NULL

(***************************************************************************)
(* Properties of paging (SpecExport)                                       *)
(***************************************************************************)

\* C15: for every page index p from 0 to past the last page, getPage(p) has
\* exactly ITEMS_PER_PAGE slots, slot k being the Collection's slot at
\* ITEMS_PER_PAGE * p + k when that index exists and empty otherwise; the
\* page an export request carries is such a page, and the steps that take
\* pages for the export leave the Collection as it is.
C15_PageOfNine ==
  [][/\ \A p \in 0..(totalPages(allCards) + 1) :
          LET page == getCardsForPage(allCards, p)
          IN /\ Len(page) = ITEMS_PER_PAGE
             /\ \A k \in 0..(ITEMS_PER_PAGE - 1) :
                  page[k + 1] = At(allCards, ITEMS_PER_PAGE * p + k)
     /\ \A r \in inflight' \ inflight :
          /\ Len(r.cards) = ITEMS_PER_PAGE
          /\ \A k \in 0..(ITEMS_PER_PAGE - 1) :
               r.cards[k + 1] = At(allCards, ITEMS_PER_PAGE * r.page + k)
          /\ allCards' = allCards]_vars

\* the second page, one card and eight empty slots, is being rasterized
C15_Witness ==
  \E r \in inflight :
    /\ r.page = 1
    /\ r.cards[1] # NULL
    /\ \A k \in 2..ITEMS_PER_PAGE : r.cards[k] = NULL

\* C16: totalPages is the least number t >= 1 of pages of ITEMS_PER_PAGE
\* slots that hold the Collection, max(1, ceil(len / ITEMS_PER_PAGE)); it is
\* 1 for the empty Collection.
C16_TotalPages ==
  LET t == totalPages(allCards)
  IN /\ t >= 1
     /\ t * ITEMS_PER_PAGE >= Len(allCards)
     /\ t > 1 => (t - 1) * ITEMS_PER_PAGE < Len(allCards)
     /\ allCards = <<>> => t = 1

\* the last card was removed: the Collection is empty again
C16_Witness ==
  /\ last.op = "remove"
  /\ allCards = <<>>

(***************************************************************************)
(* Properties of the drag's resolution                                     *)
(***************************************************************************)

\* C17: when the hit test at the release point finds no slot, or finds the
\* slot the drag started from, the commit leaves the Collection as it was,
\* content and length. (SpecDrag)
C17_NoOpCommit ==
  [][(/\ HeadIs("hit")
      /\ last'.op \in {"swap", "noSwap"}
      /\ (last'.j = NoIndex \/ last'.j = last'.i))
     => allCards' = allCards]_vars

\* a drag was released over its own source slot, in a Collection that ends
\* with an empty slot
C17_Witness ==
  /\ last.op = "noSwap"
  /\ last.i # NoIndex
  /\ last.j = last.i
  /\ allCards # <<>>
  /\ allCards[Len(allCards)] = NULL

PointerUpOps == {"touchEnd", "mouseUp", "slotClick", "remove"}

\* C18: a gesture that is Dragging has no cancel path. Only a pointer-up ends
\* it; every pointer-up that arrives while it is Dragging ends it and
\* schedules its hit test; and the hit test, swap or no-op, leaves the
\* DragSession idle. (SpecPreviewDrag)
C18_DragAlwaysResolves ==
  [][/\ (isDraggingRef /\ last'.op \in PointerUpOps) =>
          /\ ~isDraggingRef'
          /\ \E k \in 1..Len(timeouts') : timeouts'[k].kind = "hit"
     /\ (isDraggingRef /\ ~isDraggingRef') => last'.op \in PointerUpOps
     /\ (HeadIs("hit") /\ last'.op \in {"swap", "noSwap"}) =>
          dragState' = IdleDrag]_vars

\* C19: the file picker is opened by a slot click only in a gesture whose
\* long-press timer never fired: a pointer-up that ends a drag opens no file
\* picker, whatever slot it is released over. (SpecDrag)
C19_NoPickerAfterDrag ==
  [][last'.op = "slotClick" => ~isDraggingRef]_vars

\* C20: while a gesture is Dragging, a further pointer-down arms no
\* long-press timer, and the DragSession keeps its source index and its
\* payload for as long as it is Dragging. (SpecDrag)
C20_NoReentry ==
  [][/\ (isDraggingRef /\ last'.op \in {"touchStart", "mouseDown"}) =>
          timeouts' = timeouts
     /\ (isDraggingRef /\ isDraggingRef') =>
          /\ dragState'.draggedIndex = dragState.draggedIndex
          /\ dragState'.draggedData = dragState.draggedData]_vars

(***************************************************************************)
(* Properties of the drag's entry and moves                                *)
(***************************************************************************)

\* C21: when the long-press timer fires and the gesture enters Dragging, the
\* payload the DragSession carries is the content the Collection has at the
\* source index at that moment, also when the Collection changed since the
\* pointer went down. (SpecDrag)
C21_PayloadAtFire ==
  [][last'.op = "longPress" =>
       dragState'.draggedData = At(allCards, dragState'.draggedIndex)]_vars

MoveOps == {"touchMove", "mouseMove"}

\* C22: while the gesture is Dragging, a move event changes nothing but the
\* x and y of the DragSession: the Collection, the current page, the source
\* index, the payload, the active flag, and every timer, read and export
\* variable are as before the event. (SpecDrag)
C22_MoveOnlyCoordinates ==
  [][(isDraggingRef /\ last'.op \in MoveOps) =>
       /\ allCards' = allCards
       /\ currentPage' = currentPage
       /\ dragState'.draggedIndex = dragState.draggedIndex
       /\ dragState'.draggedData = dragState.draggedData
       /\ dragState'.isDragging = dragState.isDragging
       /\ isDraggingRef'
       /\ UNCHANGED <<dragStartPosRef, timeouts, reads, previewVars, genVars,
                      mouseDownOn>>]_vars

\* a move has put a Dragging session at a point away from where the pointer
\* went down, its payload not being what the Collection now holds at its
\* source index
C22_Witness ==
  /\ last.op \in MoveOps
  /\ isDraggingRef
  /\ dragState.isDragging
  /\ <<dragState.x, dragState.y>> \in Points
  /\ dragState.draggedData # At(allCards, dragState.draggedIndex)

(***************************************************************************)
(* Properties of the export run among changes of the Collection            *)
(***************************************************************************)

\* C23: the images a successful run publishes all show the Collection as it
\* was when the run was triggered: image k is the rasterization of getPage(k)
\* of that Collection, whatever happened to the Collection between two
\* rasterizations. (SpecExport)
C23_OneSnapshot ==
  [][last'.op = "published" =>
       \A k \in 1..Len(generatedImages') :
         generatedImages'[k].cards =
           getCardsForPage(gen.cards, generatedImages'[k].page)]_vars

(***************************************************************************)
(* Paging: batch uploads with their page jump, removals, page turns and    *)
(* the preview overlay. The mouse is the only pointer: it clicks delete    *)
(* buttons, and its button is released before the long-press timer fires.  *)
(***************************************************************************)
PagingNext ==
  \/ \E pos \in DownPoints, target \in DeleteTargets : MouseDown(pos, target)
  \/ \E up \in DeleteTargets \cup {NoTarget} : MouseUp(up, FALSE)
  \/ \E n \in Batches(BatchSizes, MaxLen) : HandleBatchUpload(n)
  \/ \E k \in 1..MaxReads, img \in Images : BatchLoaded(k, img)
  \/ JumpFire
  \/ GoToPrevPage
  \/ GoToNextPage
  \/ OpenPreview
  \/ ClosePreview
  \/ PreviewNext
  \/ PreviewPrev

SpecPaging == Init /\ [][PagingNext]_vars

\* C24: in every state the page shown in the editor is a page of the
\* Collection: 0 <= currentPage <= totalPages - 1. (SpecPaging)
C24_PageInRange ==
  /\ currentPage >= 0
  /\ currentPage <= totalPages(allCards) - 1

(***************************************************************************)
(* Properties of the long-press timer                                      *)
(***************************************************************************)

PressPending(q) == \E k \in 1..Len(q) : q[k].kind = "press"

\* C25: after a pointer-up (mouse-up or touch-end) no long-press timer is
\* pending, whatever pointer-downs came before it, two in a row included: the
\* gesture cannot enter Dragging before a new pointer-down. (SpecDrag)
C25_NoTimerAfterUp ==
  [][last'.op \in PointerUpOps => ~PressPending(timeouts')]_vars

(***************************************************************************)
(* The export run to its end, among batch uploads. No pointer is used.     *)
(* Every pending timeout fires, and every rasterization request is         *)
(* settled: html2canvas resolves or rejects.                               *)
(***************************************************************************)
ExportLiveNext ==
  \/ \E n \in Batches(BatchSizes, MaxLen) : HandleBatchUpload(n)
  \/ \E k \in 1..MaxReads, img \in Images : BatchLoaded(k, img)
  \/ JumpFire
  \/ \E available \in BOOLEAN : HandleGenerateAll(available)
  \/ SettleFire
  \/ \E r \in inflight : RasterResolve(r)
  \/ \E r \in inflight : RasterReject(r)
  \/ CloseModal

SpecExportLive ==
  /\ Init
  /\ [][ExportLiveNext]_vars
  /\ WF_vars(JumpFire)
  /\ WF_vars(SettleFire)
  /\ WF_vars(\E r \in inflight : RasterResolve(r) \/ RasterReject(r))

\* C26: an export run that has started (the flag is set) ends with the flag
\* cleared, whether it publishes or fails, when every rasterization request
\* is settled; and the flag is not set when no run is in progress.
\* (SpecExportLive)
C26_RunEnds ==
  /\ isGenerating ~> ~isGenerating
  /\ [](gen.pc = "idle" => ~isGenerating)

\* a run over two pages has ended by publishing, the flag is cleared
C26_Witness ==
  /\ last.op = "published"
  /\ Len(generatedImages) = 2
  /\ gen.pc = "idle"
  /\ ~isGenerating

====
